---- MODULE Spec2Model ----
(***************************************************************************)
(* Model of run.py: the export of memos fetched from a Memos server into   *)
(* a directory of Markdown files, with downloaded assets and an index.     *)
(*                                                                         *)
(* Values.  Every JSON scalar is held as the text Python's str() gives it  *)
(* ("1" is the number 1, "None" is None, "N/A" the default of .get), so    *)
(* that f-strings are plain concatenation.  A JSON object is a TLA+        *)
(* record whose DOMAIN is the set of keys the object has; a JSON array is  *)
(* a sequence.  A file is the sequence of the strings written to it, one   *)
(* element per write() call; paths are relative to out_dir.                *)
(***************************************************************************)
EXTENDS Integers, Sequences, FiniteSets, TLC

(***************************************************************************)
(* Bounds of the inputs.                                                   *)
(***************************************************************************)
MaxMemos == 2
MaxRels == 2
MaxRes == 2

(***************************************************************************)
(* Python values and dict access.                                          *)
(***************************************************************************)
None == "None"
NA == "N/A"
\* bool(v) for the values an id, a memoId or a name can take: None, the
\* number 0 and the empty string are false.
Truthy(v) == v \notin {None, "0", ""}
\* "not url", "not token": the value is unset or empty.
Missing(v) == v \in {None, ""}
Has(d, key) == key \in DOMAIN d
Get(d, key, default) == IF key \in DOMAIN d THEN d[key] ELSE default

(***************************************************************************)
(* The file system below out_dir.                                          *)
(***************************************************************************)
NoFiles == [p \in {} |-> <<>>]
\* The file opened in mode 'a' instead of 'w'.
WriteFile_append(fs, path, content) ==
    [p \in (DOMAIN fs) \cup {path} |->
        IF p = path THEN (IF p \in DOMAIN fs THEN fs[p] ELSE <<>>) \o content ELSE fs[p]]
WriteFile(fs, path, content) ==
    [p \in (DOMAIN fs) \cup {path} |-> IF p = path THEN content ELSE fs[p]]

(***************************************************************************)
(* HTTP.  A request either raises requests.RequestException or returns a   *)
(* response with a status code.                                            *)
(***************************************************************************)
Responses == {[status_code |-> 200], [status_code |-> 404],
              [exception |-> "RequestException"]}
NoResponse == [exception |-> "not requested"]
Succeeded(response) == Has(response, "status_code") /\ response.status_code = 200
Body(image_url) == <<"bytes of " \o image_url>>

\* download_image: the file is written on status 200 only; a bad status and
\* a RequestException are printed and swallowed.
download_image(fs, image_url, local_path, response) ==
    IF Succeeded(response) THEN WriteFile(fs, local_path, Body(image_url)) ELSE fs

\* The body parsed whatever the status code is.
fetch_ignoring_status(json, response) ==
    IF Has(response, "status_code") THEN [isNone |-> FALSE, json |-> json]
    ELSE [isNone |-> TRUE, json |-> <<>>]
\* fetch_and_parse_json: the parsed body on status 200, None otherwise.
fetch_and_parse_json(json, response) ==
    IF Succeeded(response) THEN [isNone |-> FALSE, json |-> json]
    ELSE [isNone |-> TRUE, json |-> <<>>]

(***************************************************************************)
(* Rendering of one memo.                                                  *)
(***************************************************************************)
\* strftime('%Y-%m-%d %H:%M:%S') of the epoch seconds "0" .. "9", local time
\* taken as UTC.  (int() of a value that is no integer raises; the inputs
\* hold integers only.)
Strftime(ts) == IF ts = "0" THEN "1970-01-01 00:00:00" ELSE "1970-01-01 00:00:0" \o ts

parse_timestamps(entry) ==
    [created |-> IF Get(entry, "createdTs", NA) # NA
                 THEN Strftime(entry.createdTs) ELSE NA,
     updated |-> IF Get(entry, "updatedTs", NA) # NA
                 THEN Strftime(entry.updatedTs) ELSE NA]

MetaKeys == <<"id", "name", "creatorId", "visibility", "creatorName">>
MetaLine(entry, key) == key \o ": " \o Get(entry, key, NA) \o "\n"

write_metadata(entry, created_ts_readable, updated_ts_readable) ==
    <<"---\n",
      MetaLine(entry, MetaKeys[1]), MetaLine(entry, MetaKeys[2]),
      MetaLine(entry, MetaKeys[3]), MetaLine(entry, MetaKeys[4]),
      MetaLine(entry, MetaKeys[5]),
      "createdTs: " \o created_ts_readable \o "\n",
      "updatedTs: " \o updated_ts_readable \o "\n---\n\n",
      "[[" \o Get(entry, "creatorName", NA) \o " - " \o created_ts_readable
           \o "]](" \o entry.name \o ")\n\n">>

\* The local file name of a resource and the image reference written for it.
AssetName(resource) ==
    Get(resource, "createdTs", None) \o "_" \o Get(resource, "filename", None)
AssetPath(resource) == "assets/" \o AssetName(resource)
ImageRef(resource) ==
    "\n\n![" \o AssetName(resource) \o "](" \o AssetPath(resource) \o ")"
ImageUrl(base_url, resource) == base_url \o "/o/r/" \o resource.name

\* "if name is not None" instead of "if name".
HasSource_present(resource) == Get(resource, "name", None) # None
\* The guard of process_resource: a resource is written and downloaded only
\* when its name is truthy.
HasSource(resource) == Truthy(Get(resource, "name", None))

\* The reference written only once the download has succeeded.
process_resource_after(st, resource, base_url, response) ==
    IF HasSource(resource)
    THEN [writes |-> IF Succeeded(response)
                     THEN Append(st.writes, ImageRef(resource)) ELSE st.writes,
          fs |-> download_image(st.fs, ImageUrl(base_url, resource),
                                AssetPath(resource), response),
          requests |-> Append(st.requests,
                              [image_url |-> ImageUrl(base_url, resource),
                               local_path |-> AssetPath(resource),
                               response |-> response])]
    ELSE st
\* process_resource on an open md_file: st holds the strings written so far,
\* the file system and the requests made.  The reference is written first,
\* then the download is made; nothing of the download comes back.
process_resource(st, resource, base_url, response) ==
    IF HasSource(resource)
    THEN [writes |-> Append(st.writes, ImageRef(resource)),
          fs |-> download_image(st.fs, ImageUrl(base_url, resource),
                                AssetPath(resource), response),
          requests |-> Append(st.requests,
                              [image_url |-> ImageUrl(base_url, resource),
                               local_path |-> AssetPath(resource),
                               response |-> response])]
    ELSE st

\* for resource in entry['resourceList']
RECURSIVE ResourceLoop(_, _, _, _, _)
ResourceLoop(st, resourceList, base_url, responses, k) ==
    IF k > Len(resourceList) THEN st
    ELSE ResourceLoop(process_resource(st, resourceList[k], base_url, responses[k]),
                      resourceList, base_url, responses, k + 1)

(***************************************************************************)
(* process_relations.                                                      *)
(***************************************************************************)
\* The status accumulated over the relations instead of overwritten.
RootAfter_accumulated(isRootNote, memoId, type, memo_id) ==
    isRootNote /\ (memoId # memo_id \/ type # "COMMENT")
\* "and" in place of "or".
RootAfter_and(isRootNote, memoId, type, memo_id) ==
    memoId # memo_id /\ type # "COMMENT"
\* line 114: the root status after one relation; the status so far is not read.
RootAfter(isRootNote, memoId, type, memo_id) == memoId # memo_id \/ type # "COMMENT"

\* The test "memoId != memo_id" left out.
IsComment_self(memoId, name_by_id, memo_id) ==
    Truthy(memoId) /\ memoId \in DOMAIN name_by_id
\* line 115: the relation contributes a comment.
IsComment(memoId, name_by_id, memo_id) ==
    Truthy(memoId) /\ memoId \in DOMAIN name_by_id /\ memoId # memo_id

RECURSIVE RelationLoop(_, _, _, _, _)
RelationLoop(acc, relationList, name_by_id, memo_id, k) ==
    IF k > Len(relationList) THEN acc
    ELSE LET relation == relationList[k]
             memoId == Get(relation, "memoId", None)
             type == Get(relation, "type", None)
         IN RelationLoop(
                [isRootNote |-> RootAfter(acc.isRootNote, memoId, type, memo_id),
                 comments |-> IF IsComment(memoId, name_by_id, memo_id)
                              THEN Append(acc.comments, name_by_id[memoId])
                              ELSE acc.comments],
                relationList, name_by_id, memo_id, k + 1)

CommentLink(comment) == "\n![[" \o comment \o "]]"
CommentSummary(n) ==
    "\n\n<details><summary>" \o ToString(n) \o " comment"
        \o (IF n > 1 THEN "s" ELSE "") \o "</summary>\n"
CommentBlock(comments) ==
    IF comments = <<>> THEN <<>>
    ELSE <<CommentSummary(Len(comments))>>
         \o [k \in 1..Len(comments) |-> CommentLink(comments[k])]
         \o <<"\n</details>">>

process_relations(entry, name_by_id, memo_id) ==
    LET start == [isRootNote |-> TRUE, comments |-> <<>>]
        end == IF Has(entry, "relationList") /\ entry.relationList # <<>>
               THEN RelationLoop(start, entry.relationList, name_by_id, memo_id, 1)
               ELSE start
    IN [isRootNote |-> end.isRootNote,
        comments |-> end.comments,
        writes |-> CommentBlock(end.comments)]

(***************************************************************************)
(* write_index_file.  root_note['id'] raises KeyError for a record         *)
(* without the key; the file, opened by a with statement, then keeps what   *)
(* was written before.                                                     *)
(***************************************************************************)
IndexHeading == "# Memos\n\n"
IndexLink(note_name) == "![[" \o note_name \o "]]\n"

RECURSIVE IndexLoop(_, _, _, _)
IndexLoop(content, root_notes, name_by_id, k) ==
    IF k > Len(root_notes) THEN [content |-> content, raised |-> FALSE]
    ELSE IF ~Has(root_notes[k], "id") THEN [content |-> content, raised |-> TRUE]
    ELSE LET note_name == Get(name_by_id, root_notes[k].id, None)
         IN IndexLoop(IF Truthy(note_name)
                      THEN Append(content, IndexLink(note_name)) ELSE content,
                      root_notes, name_by_id, k + 1)

write_index_file(root_notes, name_by_id) ==
    IndexLoop(<<IndexHeading>>, root_notes, name_by_id, 1)

(***************************************************************************)
(* The state.                                                              *)
(*   server      the array of memo records the API returns                 *)
(*   dirExists, files   out_dir and the files below it                     *)
(*   before      out_dir as the running (or last) process found it         *)
(*   pc          "none" before the first run; "loop" inside the for loop   *)
(*               of create_markdown_files; "done", "aborted" (nothing      *)
(*               done: configuration missing or fetch failed) or "crashed" *)
(*               (uncaught exception) once the process has ended           *)
(*   url, token, response   the resolved configuration and the answer to   *)
(*               the initial GET                                           *)
(*   data, pos   the fetched array and the position of the for loop        *)
(*   name_by_id, root_notes   the locals of create_markdown_files          *)
(*   requests    the calls of download_image made, in order                *)
(***************************************************************************)
VARIABLES server, dirExists, files, before, pc, url, token, response,
          data, pos, name_by_id, root_notes, requests

vars == <<server, dirExists, files, before, pc, url, token, response,
          data, pos, name_by_id, root_notes, requests>>

Ended == {"none", "done", "aborted", "crashed"}
BaseUrl == "http://memos"
IndexPath == "index.md"
MdPath(entry) == entry.name \o ".md"
NoMap == [i \in {} |-> ""]
MapPut(m, key, value) == [i \in (DOMAIN m) \cup {key} |-> IF i = key THEN value ELSE m[i]]

\* A record without `id` skipped as well.
Skipped_id(entry) ==
    ~Has(entry, "name") \/ ~Has(entry, "content") \/ ~Has(entry, "id")
\* line 45: the record is skipped.
Skipped(entry) == ~Has(entry, "name") \/ ~Has(entry, "content")

\* makedirs(exist_ok=True) without the rmtree before it.
FreshDir_kept(exists, fs) == fs
\* lines 38-42: out_dir after rmtree and the two makedirs.
FreshDir(exists, fs) == NoFiles

(***************************************************************************)
(* The inputs.                                                             *)
(***************************************************************************)
Seqs(S, n) == UNION {[1..m -> S] : m \in 0..n}

\* The arrays of at most n records that hold one record of Rich, the others
\* of Light.
OneAmong(Rich, Light, n) ==
    UNION {UNION {{[j \in 1..m |-> IF j = k THEN r
                               ELSE IF j < k THEN ls[j] ELSE ls[j - 1]] :
                     r \in Rich, ls \in [1..(m - 1) -> Light]} :
                  k \in 1..m} :
           m \in 1..n}

\* The two memos of the end-to-end scenario.
MemoA == [id |-> "1", name |-> "root", content |-> "hello"]
MemoB == [id |-> "2", name |-> "reply", content |-> "hi",
          relationList |-> <<[memoId |-> "1", type |-> "COMMENT"]>>]
Catalog ==
    {MemoA, MemoB,
     [id |-> "1", name |-> "root"],
     [id |-> "2", content |-> "hi"],
     [name |-> "reply", content |-> "hello"],
     [id |-> "3", name |-> "index", content |-> "hi", createdTs |-> "0"],
     [id |-> "2", name |-> "root", content |-> "hi"],
     [id |-> "2", name |-> "reply", content |-> "hi",
      relationList |-> <<[memoId |-> "2", type |-> "COMMENT"]>>],
     [id |-> "1", name |-> "root", content |-> "hello",
      resourceList |-> <<[name |-> "r1", createdTs |-> "7", filename |-> "a.png"],
                         [createdTs |-> "8", filename |-> "b.png"]>>]}
Feed == Seqs(Catalog, MaxMemos)

\* Relations: every memoId, also none and the number 0, with every type.
Relations ==
    {[memoId |-> m, type |-> t] : m \in {"0", "1", "2"}, t \in {"COMMENT", "REFERENCE"}}
    \cup {[type |-> "COMMENT"], [memoId |-> "1"]}
Plain == {[id |-> "0", name |-> "zero", content |-> "z"],
          [id |-> "2", name |-> "reply", content |-> "hi"]}
WithRelations ==
    {[id |-> "1", name |-> "root", content |-> "hello", relationList |-> rl] :
        rl \in Seqs(Relations, MaxRels)}
FeedRel == OneAmong(WithRelations, Plain, MaxMemos)

\* Resources: with a name, without one, with an empty one; two share the
\* original file name.
Resources ==
    {[name |-> "r1", createdTs |-> "7", filename |-> "a.png"],
     [name |-> "r2", createdTs |-> "8", filename |-> "a.png"],
     [createdTs |-> "8", filename |-> "b.png"],
     [name |-> "", createdTs |-> "9", filename |-> "c.png"]}
WithResources ==
    {[id |-> "1", name |-> "root", content |-> "hello", resourceList |-> rl,
      relationList |-> <<[memoId |-> "2", type |-> "REFERENCE"]>>] :
        rl \in Seqs(Resources, MaxRes)}
FeedRes == OneAmong(WithResources, {[id |-> "2", name |-> "reply", content |-> "hi"]},
                    MaxMemos)

\* out_dir before the first run: missing, or holding a file of the user.
InitialDirs ==
    {[dirExists |-> FALSE, files |-> NoFiles],
     [dirExists |-> TRUE, files |-> WriteFile(NoFiles, "notes.txt", <<"keep">>)]}

InitOn(feed) ==
    /\ server \in feed
    /\ \E d \in InitialDirs :
          /\ dirExists = d.dirExists
          /\ files = d.files
          /\ before = d
    /\ pc = "none"
    /\ url = None
    /\ token = None
    /\ response = NoResponse
    /\ data = <<>>
    /\ pos = 1
    /\ name_by_id = NoMap
    /\ root_notes = <<>>
    /\ requests = <<>>

Init == InitOn(Feed)
InitRel == InitOn(FeedRel)
InitRes == InitOn(FeedRes)

(***************************************************************************)
(* __main__ up to the first iteration of the loop of create_markdown_files *)
(***************************************************************************)
Main ==
    /\ pc \in Ended
    /\ \E u \in {None, BaseUrl}, t \in {None, "secret"}, r \in Responses :
          LET fetched == IF Missing(u) \/ Missing(t)
                         THEN [isNone |-> TRUE, json |-> <<>>, response |-> NoResponse]
                         ELSE [isNone |-> fetch_and_parse_json(server, r).isNone,
                               json |-> fetch_and_parse_json(server, r).json,
                               response |-> r]
          IN /\ url' = u
             /\ token' = t
             /\ response' = fetched.response
             /\ before' = [dirExists |-> dirExists, files |-> files]
             /\ data' = fetched.json
             /\ pos' = 1
             /\ name_by_id' = NoMap
             /\ root_notes' = <<>>
             /\ requests' = <<>>
             /\ IF fetched.isNone
                THEN /\ pc' = "aborted"
                     /\ UNCHANGED <<dirExists, files>>
                ELSE /\ pc' = "loop"
                     /\ dirExists' = TRUE
                     /\ files' = FreshDir(dirExists, files)
    /\ UNCHANGED server

(***************************************************************************)
(* One iteration of "for entry in data" (lines 44-70).                     *)
(***************************************************************************)
ResourceList(entry) ==
    IF Has(entry, "resourceList") THEN entry.resourceList ELSE <<>>

LoopEntry ==
    /\ pc = "loop"
    /\ pos <= Len(data)
    /\ LET entry == data[pos]
       IN IF Skipped(entry)
          THEN UNCHANGED <<files, name_by_id, root_notes, requests>>
          ELSE \E responses \in [1..Len(ResourceList(entry)) -> Responses] :
                  LET map == IF Has(entry, "id")
                             THEN MapPut(name_by_id, entry.id, entry.name)
                             ELSE name_by_id
                      ts == parse_timestamps(entry)
                      memo_id == Get(entry, "id", NA)
                      opened == [writes |-> write_metadata(entry, ts.created, ts.updated)
                                            \o <<entry.content>>,
                                 fs |-> WriteFile(files, MdPath(entry), <<>>),
                                 requests |-> requests]
                      st == ResourceLoop(opened, ResourceList(entry), url, responses, 1)
                      rel == process_relations(entry, map, memo_id)
                  IN /\ name_by_id' = map
                     /\ files' = WriteFile(st.fs, MdPath(entry), st.writes \o rel.writes)
                     /\ requests' = st.requests
                     /\ root_notes' = IF rel.isRootNote
                                      THEN Append(root_notes, entry) ELSE root_notes
    /\ pos' = pos + 1
    /\ UNCHANGED <<server, dirExists, before, pc, url, token, response, data>>

(***************************************************************************)
(* The end of the loop: write_index_file (line 72).                        *)
(***************************************************************************)
WriteIndex ==
    /\ pc = "loop"
    /\ pos > Len(data)
    /\ LET index == write_index_file(root_notes, name_by_id)
       IN /\ files' = WriteFile(files, IndexPath, index.content)
          /\ pc' = IF index.raised THEN "crashed" ELSE "done"
    /\ UNCHANGED <<server, dirExists, before, url, token, response,
                   data, pos, name_by_id, root_notes, requests>>

(***************************************************************************)
(* The server between two runs: a memo is deleted.                         *)
(***************************************************************************)
ServerDelete ==
    /\ pc \in Ended
    /\ \E k \in 1..Len(server) :
          server' = [j \in 1..(Len(server) - 1) |->
                        IF j < k THEN server[j] ELSE server[j + 1]]
    /\ UNCHANGED <<dirExists, files, before, pc, url, token, response,
                   data, pos, name_by_id, root_notes, requests>>

Next == Main \/ LoopEntry \/ WriteIndex \/ ServerDelete

Spec == Init /\ [][Next]_vars
SpecRel == InitRel /\ [][Next]_vars
SpecRes == InitRes /\ [][Next]_vars

(***************************************************************************)
(* What the properties below read from a state.                            *)
(***************************************************************************)
\* create_markdown_files has been entered by the running (or last) process.
Reached == pc \in {"loop", "done", "crashed"}
\* The positions of data the loop has gone through.
Seen == 1..(pos - 1)
ValidAt(j) == Has(data[j], "name") /\ Has(data[j], "content")
ValidSeen == {j \in Seen : ValidAt(j)}
Range(s) == {s[k] : k \in DOMAIN s}
MapSeq(s, F(_)) == [k \in 1..Len(s) |-> F(s[k])]
\* The records of data at the positions S, in input order.
Pick(S) ==
    [k \in 1..Cardinality(S) |->
        data[CHOOSE j \in S : Cardinality({i \in S : i < j}) = k - 1]]
\* No later record seen so far writes the same file as the record at j.
Survives(j) ==
    /\ \A k \in ValidSeen : k > j => data[k].name # data[j].name
    /\ pc \in {"done", "crashed"} => MdPath(data[j]) # IndexPath
\* The id-to-name map when the record at j is handled: the ids of the valid
\* records at positions <= j, each with the name of the last of them.
IdsUpTo(j) == {data[k].id : k \in {k \in 1..j : ValidAt(k) /\ Has(data[k], "id")}}
MapAt(j) ==
    [i \in IdsUpTo(j) |->
        data[CHOOSE k \in 1..j :
                /\ ValidAt(k) /\ Has(data[k], "id") /\ data[k].id = i
                /\ \A m \in (k + 1)..j :
                      ~(ValidAt(m) /\ Has(data[m], "id") /\ data[m].id = i)].name]
RelationList(e) == IF Has(e, "relationList") THEN e.relationList ELSE <<>>
\* The resource has a name that is present and not empty.
Named(resource) == Has(resource, "name") /\ resource.name \notin {"", None}
\* The relation points to a memo the map knows, other than the memo at j.
PointsToKnown(j, relation) ==
    /\ Has(relation, "memoId")
    /\ relation.memoId \in IdsUpTo(j)
    /\ ~(Has(data[j], "id") /\ relation.memoId = data[j].id)
NameOfTarget(j, relation) == MapAt(j)[relation.memoId]
\* What the file of the record at j holds before its image references.
Preamble(e) == write_metadata(e, parse_timestamps(e).created, parse_timestamps(e).updated)
               \o <<e.content>>
ImageRefs(e) ==
    LET named == SelectSeq(ResourceList(e), Named)
    IN [k \in 1..Len(named) |-> ImageRef(named[k])]
IsImageRef(chunk) == \E r \in Resources : chunk = ImageRef(r)
\* The root status the last relation alone gives.
LastRelationRoot(e) ==
    \/ RelationList(e) = <<>>
    \/ LET last == RelationList(e)[Len(RelationList(e))]
       IN ~(/\ Has(last, "memoId") /\ Has(e, "id") /\ last.memoId = e.id
            /\ Has(last, "type") /\ last.type = "COMMENT")
IsRootRecord(e) == Has(e, "name") /\ Has(e, "content") /\ LastRelationRoot(e)

(***************************************************************************)
(* C1.  A record that lacks `name` or `content` writes no file, enters no  *)
(* id in the map and gives no index line; the other records are handled    *)
(* in input order.  At every point of the loop: the Markdown files are     *)
(* those of the valid records seen, the keys of the map are their ids,     *)
(* the root notes are valid records in input order, and every index line   *)
(* names a valid record.                                                   *)
(***************************************************************************)
C1_SkippedRecords ==
    Reached =>
        /\ {p \in DOMAIN files : p # IndexPath /\ p \notin {r.local_path : r \in Range(requests)}}
              = {MdPath(data[j]) : j \in ValidSeen} \ {IndexPath}
        /\ \A j \in ValidSeen : MdPath(data[j]) \in DOMAIN files
        /\ DOMAIN name_by_id = IdsUpTo(pos - 1)
        /\ \E S \in SUBSET ValidSeen : root_notes = Pick(S)
        /\ pc \in {"done", "crashed"} =>
              /\ Len(files[IndexPath]) <= 1 + Len(root_notes)
              /\ \A k \in 2..Len(files[IndexPath]) :
                    \E j \in ValidSeen : files[IndexPath][k] = IndexLink(data[j].name)
C1_Witness ==
    /\ pc = "done"
    /\ Len(data) = 2
    /\ ~ValidAt(1) /\ Has(data[1], "name") /\ Has(data[1], "id")
    /\ ValidAt(2)
    /\ data[1].id \notin DOMAIN name_by_id
    /\ MdPath(data[1]) \notin DOMAIN files

(***************************************************************************)
(* C2.  process_relations gives "root" for a memo without relations, and   *)
(* otherwise what the last relation alone gives: not root exactly when     *)
(* the last relation is a COMMENT whose memoId is the memo's own id.  The  *)
(* root notes are the valid records seen for which this holds, in order.   *)
(***************************************************************************)
C2_LastRelationWins ==
    Reached => root_notes = SelectSeq(SubSeq(data, 1, pos - 1), IsRootRecord)
\* A self-referential COMMENT first, another relation last: a root note.
C2_Witness ==
    /\ pc = "done"
    /\ \E j \in ValidSeen :
          LET e == data[j]
          IN /\ Len(RelationList(e)) = 2
             /\ RelationList(e)[1] = [memoId |-> e.id, type |-> "COMMENT"]
             /\ RelationList(e)[2] = [memoId |-> "2", type |-> "COMMENT"]
             /\ e \in Range(root_notes)

(***************************************************************************)
(* C3 as claimed.  A run that reaches write_index_file ends without error  *)
(* and index.md holds the heading and one link per root note whose id the  *)
(* map holds; a root note without `id` is passed over.                     *)
(***************************************************************************)
KnownRoot(e) == Has(e, "id") /\ e.id \in DOMAIN name_by_id
LinkOfRoot(e) == IndexLink(name_by_id[e.id])
C3_IndexClaimed ==
    pc \in {"done", "crashed"} =>
        /\ pc = "done"
        /\ files[IndexPath]
              = <<IndexHeading>> \o MapSeq(SelectSeq(root_notes, KnownRoot), LinkOfRoot)

(***************************************************************************)
(* C4.  When url or token is missing, or the initial GET does not return   *)
(* status 200, the process ends without entering create_markdown_files     *)
(* and out_dir is as the process found it; out_dir differs from what the   *)
(* process found only after a GET that returned 200.                       *)
(***************************************************************************)
FetchFailed == Missing(url) \/ Missing(token) \/ ~Succeeded(response)
C4_NoOutputOnAbort ==
    /\ pc # "none" /\ FetchFailed => pc = "aborted"
    /\ pc = "aborted" => dirExists = before.dirExists /\ files = before.files
    /\ Reached => Succeeded(response) /\ ~Missing(url) /\ ~Missing(token)
    /\ (dirExists # before.dirExists \/ files # before.files) => Succeeded(response)
\* A fetch that failed with the configuration present and output of an
\* earlier run in place.
C4_Witness ==
    /\ pc = "aborted"
    /\ ~Missing(url) /\ ~Missing(token) /\ ~Succeeded(response)
    /\ IndexPath \in DOMAIN files

(***************************************************************************)
(* C5.  Every download made has its image reference in the memo's file,    *)
(* whatever the answer (200, another status, RequestException raised by    *)
(* the request); a download is made once per named resource, failed or     *)
(* not; no answer ends the run: the later resources, the comment block,    *)
(* the later records and index.md are written.  (Every record of FeedRes   *)
(* has an id, so that nothing but a download could end a run early.)       *)
(***************************************************************************)
RequestsOf(e) == SelectSeq(ResourceList(e), Named)
RECURSIVE RequestsUpTo(_)
RequestsUpTo(j) ==
    IF j = 0 THEN <<>>
    ELSE RequestsUpTo(j - 1)
         \o (IF ValidAt(j) THEN MapSeq(RequestsOf(data[j]), AssetPath) ELSE <<>>)
LocalPath(request) == request.local_path
C5_FailedDownloadKeepsGoing ==
    Reached =>
        /\ pc # "crashed"
        /\ MapSeq(requests, LocalPath) = RequestsUpTo(pos - 1)
        /\ \A j \in ValidSeen : Survives(j) =>
              \A r \in Range(ResourceList(data[j])) :
                  Named(r) => ImageRef(r) \in Range(files[MdPath(data[j])])
        /\ pc = "done" =>
              /\ IndexPath \in DOMAIN files
              /\ \A j \in 1..Len(data) : ValidAt(j) => MdPath(data[j]) \in DOMAIN files
\* A download that failed, followed by one that was made, in a memo with a
\* comment block, followed by another memo.
C5_Witness ==
    /\ pc = "done"
    /\ Len(data) = 2 /\ ValidAt(1) /\ ValidAt(2)
    /\ Len(requests) = 2
    /\ ~Succeeded(requests[1].response)
    /\ requests[1].local_path \notin DOMAIN files
    /\ requests[2].local_path \in DOMAIN files
    /\ Len(ResourceList(data[1])) = 2

(***************************************************************************)
(* C6 as claimed.  The file of a valid memo holds one image reference per  *)
(* resource of its list and one download is made per resource: both        *)
(* numbers are the length of the list.                                     *)
(***************************************************************************)
CountRefs(j) == Len(SelectSeq(files[MdPath(data[j])], IsImageRef))
RECURSIVE ResourcesUpTo(_)
ResourcesUpTo(j) ==
    IF j = 0 THEN 0
    ELSE ResourcesUpTo(j - 1) + (IF ValidAt(j) THEN Len(ResourceList(data[j])) ELSE 0)
C6_OnePerResourceClaimed ==
    Reached =>
        /\ Len(requests) = ResourcesUpTo(pos - 1)
        /\ \A j \in ValidSeen : Survives(j) => CountRefs(j) = Len(ResourceList(data[j]))

(***************************************************************************)
(* C6 amended.  The file of a valid memo holds, right after the content    *)
(* and before the comment block, one image reference per resource whose    *)
(* name is present and not empty, in list order, and nowhere else; one     *)
(* download is made for each of these resources and for no other.          *)
(***************************************************************************)
C6_OnePerNamedResource ==
    Reached =>
        /\ Len(requests) = Len(RequestsUpTo(pos - 1))
        /\ \A j \in ValidSeen : Survives(j) =>
              LET f == files[MdPath(data[j])]
                  h == Preamble(data[j]) \o ImageRefs(data[j])
              IN /\ Len(f) >= Len(h)
                 /\ SubSeq(f, 1, Len(h)) = h
                 /\ \A k \in (Len(h) + 1)..Len(f) : ~IsImageRef(f[k])
                 /\ CountRefs(j) = Len(RequestsOf(data[j]))
                 /\ Len(f) > Len(h) => f[Len(h) + 1] = CommentSummary(Len(f) - Len(h) - 2)
\* A memo with a resource without name and a named one, and a comment block.
C6_Witness ==
    /\ pc = "done"
    /\ \E j \in ValidSeen :
          /\ Len(ResourceList(data[j])) = 2
          /\ ~Named(ResourceList(data[j])[1])
          /\ Named(ResourceList(data[j])[2])
          /\ CountRefs(j) = 1
          /\ CommentSummary(1) \in Range(files[MdPath(data[j])])
          /\ Len(requests) = 1

(***************************************************************************)
(* C7.  Once create_markdown_files is entered, out_dir holds what this run *)
(* has written and nothing else: the files of the valid records seen, the  *)
(* assets downloaded, and index.md once written.  A file found in out_dir  *)
(* by the run and not written again is gone.                               *)
(***************************************************************************)
C7_DirectoryReplaced ==
    Reached =>
        /\ dirExists
        /\ DOMAIN files =
              {MdPath(data[j]) : j \in ValidSeen}
              \cup {requests[k].local_path :
                       k \in {k \in DOMAIN requests : Succeeded(requests[k].response)}}
              \cup (IF pc \in {"done", "crashed"} THEN {IndexPath} ELSE {})
\* Output of an earlier run, and a file of it that this run did not write.
C7_Witness ==
    /\ pc = "done"
    /\ IndexPath \in DOMAIN before.files
    /\ \E p \in DOMAIN before.files : p \notin DOMAIN files

(***************************************************************************)
(* C8 as claimed.  For the input [A, B] of the scenario, root.md and       *)
(* reply.md are written, root.md holds a comment block naming `reply`,     *)
(* and index.md lists ![[root]] only.                                      *)
(***************************************************************************)
Scenario == data = <<MemoA, MemoB>> /\ pc = "done"
C8_ScenarioClaimed ==
    Scenario =>
        /\ {"root.md", "reply.md"} \subseteq DOMAIN files
        /\ CommentLink("reply") \in Range(files["root.md"])
        /\ files[IndexPath] = <<IndexHeading, IndexLink("root")>>

(***************************************************************************)
(* C8 amended.  For the input [A, B] of the scenario, root.md and reply.md *)
(* are written; root.md holds no comment block; reply.md ends with a block *)
(* of one comment naming `root`; index.md lists ![[root]], then            *)
(* ![[reply]].                                                             *)
(***************************************************************************)
C8_Scenario ==
    Scenario =>
        /\ DOMAIN files = {"root.md", "reply.md", IndexPath}
        /\ files["root.md"] = Preamble(MemoA)
        /\ files["reply.md"]
              = Preamble(MemoB) \o <<CommentSummary(1), CommentLink("root"), "\n</details>">>
        /\ files[IndexPath] = <<IndexHeading, IndexLink("root"), IndexLink("reply")>>
C8_Witness == Scenario /\ Len(files["reply.md"]) > Len(files["root.md"])

(***************************************************************************)
(* The comment list of the record at j, as claimed (every relation that    *)
(* points to a known memo other than the record) and as amended (its       *)
(* memoId is moreover none of None, 0 and the empty string).               *)
(***************************************************************************)
ClaimedComments(j) ==
    LET Counts(relation) == PointsToKnown(j, relation)
        Target(relation) == NameOfTarget(j, relation)
    IN MapSeq(SelectSeq(RelationList(data[j]), Counts), Target)
Comments(j) ==
    LET Counts(relation) ==
            PointsToKnown(j, relation) /\ relation.memoId \notin {None, "0", ""}
        Target(relation) == NameOfTarget(j, relation)
    IN MapSeq(SelectSeq(RelationList(data[j]), Counts), Target)
Block(names) ==
    IF Len(names) = 0 THEN <<>>
    ELSE <<CommentSummary(Len(names))>> \o MapSeq(names, CommentLink) \o <<"\n</details>">>

(***************************************************************************)
(* C9 as claimed.  The comment block of the memo at position j lists, in   *)
(* relation order, the mapped name of every relation whose memoId is an id *)
(* of a valid record at a position <= j and is not the memo's own id,      *)
(* whatever the memoId and the type; the block is there iff the list is    *)
(* not empty; the root status does not depend on the map.                  *)
(***************************************************************************)
C9_CommentsClaimed ==
    Reached =>
        /\ \A j \in ValidSeen : Survives(j) =>
              files[MdPath(data[j])]
                 = Preamble(data[j]) \o ImageRefs(data[j]) \o Block(ClaimedComments(j))
        /\ \A j \in ValidSeen : (data[j] \in Range(root_notes)) = LastRelationRoot(data[j])

(***************************************************************************)
(* C9 amended.  As claimed, for the relations whose memoId is true in      *)
(* Python: a relation without memoId, or with memoId 0 or "", gives no     *)
(* comment even when the map holds that id.                                *)
(***************************************************************************)
C9_Comments ==
    Reached =>
        /\ \A j \in ValidSeen : Survives(j) =>
              files[MdPath(data[j])]
                 = Preamble(data[j]) \o ImageRefs(data[j]) \o Block(Comments(j))
        /\ \A j \in ValidSeen : (data[j] \in Range(root_notes)) = LastRelationRoot(data[j])
\* A reference to a memo placed later, as last relation a self COMMENT: no
\* comment for the forward reference, and not a root note.
C9_Witness ==
    /\ pc = "done"
    /\ Len(data) = 2 /\ ValidAt(1) /\ ValidAt(2)
    /\ Len(RelationList(data[1])) = 2
    /\ RelationList(data[1])[1] = [memoId |-> data[2].id, type |-> "REFERENCE"]
    /\ RelationList(data[1])[2] = [memoId |-> data[1].id, type |-> "COMMENT"]
    /\ files[MdPath(data[1])] = Preamble(data[1])
    /\ root_notes = <<data[2]>>

(***************************************************************************)
(* C10 as claimed.  After a completed run every name of a valid record has *)
(* its file, holding the rendering of the last valid record of that name;  *)
(* index.md holds the index; there are as many memo files as names.        *)
(***************************************************************************)
Rendering(j) == Preamble(data[j]) \o ImageRefs(data[j]) \o Block(Comments(j))
LastOfName(j) == \A k \in ValidSeen : k > j => data[k].name # data[j].name
IndexContent == <<IndexHeading>> \o MapSeq(SelectSeq(root_notes, KnownRoot), LinkOfRoot)
MemoFiles ==
    {p \in DOMAIN files :
        p # IndexPath /\ p \notin {r.local_path : r \in Range(requests)}}
C10_LastWriterClaimed ==
    pc = "done" =>
        /\ \A j \in ValidSeen : LastOfName(j) =>
              /\ MdPath(data[j]) \in DOMAIN files
              /\ files[MdPath(data[j])] = Rendering(j)
        /\ files[IndexPath] = IndexContent
        /\ Cardinality(MemoFiles) = Cardinality({data[j].name : j \in ValidSeen})

(***************************************************************************)
(* C10 amended.  After a completed run every name other than "index" of a  *)
(* valid record has its file, holding the rendering of the last valid      *)
(* record of that name; index.md holds the index, also when a record is    *)
(* named "index", whose rendering is lost; the memo files besides index.md *)
(* are as many as the names other than "index".                            *)
(***************************************************************************)
C10_LastWriter ==
    pc = "done" =>
        /\ \A j \in ValidSeen : LastOfName(j) /\ data[j].name # "index" =>
              /\ MdPath(data[j]) \in DOMAIN files
              /\ files[MdPath(data[j])] = Rendering(j)
        /\ files[IndexPath] = IndexContent
        /\ Cardinality(MemoFiles) = Cardinality({data[j].name : j \in ValidSeen} \ {"index"})
\* Two different valid records of one name.
C10_Witness ==
    /\ pc = "done"
    /\ Len(data) = 2 /\ ValidAt(1) /\ ValidAt(2)
    /\ data[1].name = data[2].name
    /\ data[1] # data[2]
    /\ files[MdPath(data[1])] = Rendering(2)
    /\ Rendering(1) # Rendering(2)

============================================================================
